---- MODULE Spec2Model ----
(***************************************************************************)
(* Model of volumiwled.py: the polling loop VolumiWLED.run, the two        *)
(* effects of EffectManager and the commands they send to the WLED sink.   *)
(*                                                                         *)
(* Python floats are IEEE-754 binary64 values.  The progress computation   *)
(* (seek / 1000, progress / duration, led_count * progress_ratio, int())   *)
(* is modelled with correctly rounded binary arithmetic on bit sequences,  *)
(* because its result depends on the rounding of every step.               *)
(***************************************************************************)
EXTENDS Integers, Sequences, FiniteSets, TLC

----------------------------------------------------------------------------
(* Bounds of the model *)

\* led.count ranges over 1..MaxLed
MaxLed == 5
\* a polled duration (seconds) ranges over 0..MaxDuration
MaxDuration == 3
\* a polled seek (milliseconds) ranges over the multiples k * 600, k \in 0..MaxSeek
MaxSeek == 3

----------------------------------------------------------------------------
(* Binary floating point: the float type of Python *)

\* number of significand bits of a binary64 float
Precision == 53

\* the single element of a singleton set; The({F(v) : v \in {e}}) evaluates
\* e once and names its value v
The(S) == CHOOSE v \in S : TRUE

Zeros(n) == [i \in 1..n |-> 0]

\* the integer written by the first k bits of a sequence, most significant first
RECURSIVE BitsToInt(_, _)
BitsToInt(bits, k) ==
    IF k = 0 THEN 0 ELSE 2 * BitsToInt(bits, k - 1) + bits[k]

\* the bits of a natural number, most significant first (<<>> for 0)
RECURSIVE IntToBits(_)
IntToBits(n) == IF n = 0 THEN <<>> ELSE IntToBits(n \div 2) \o <<n % 2>>

AnyOne(bits) == \E i \in 1..Len(bits) : bits[i] = 1

\* bits without its leading zeros (bits holds a 1)
StripZeros(bits) ==
    LET first == CHOOSE i \in 1..Len(bits) :
                     bits[i] = 1 /\ \A j \in 1..(i - 1) : bits[j] = 0
    IN  SubSeq(bits, first, Len(bits))

\* bits + 1 as <<carry out, bits>>: the last 0 becomes 1, the 1s after it 0
IncBits(bits) ==
    IF \A i \in 1..Len(bits) : bits[i] = 1 THEN <<1, Zeros(Len(bits))>>
    ELSE LET z == CHOOSE i \in 1..Len(bits) :
                      bits[i] = 0 /\ \A j \in (i + 1)..Len(bits) : bits[j] = 1
         IN  <<0, [i \in 1..Len(bits) |->
                     IF i < z THEN bits[i] ELSE IF i = z THEN 1 ELSE 0]>>

\* A float is 0.0 or m * 2^(e - (Precision - 1)), m a significand of
\* Precision bits whose first bit is 1; e is the exponent of that bit.
FloatZero == [zero |-> TRUE, m |-> <<>>, e |-> 0]
FloatOne == [zero |-> FALSE, m |-> <<1>> \o Zeros(Precision - 1), e |-> 0]

\* Round to nearest, ties to even: bits starts with 1 and is the exact value
\* up to its last bit, sticky tells whether anything nonzero follows; e is
\* the exponent of bits[1].
RoundNearestEven(bits, sticky, e) ==
    IF Len(bits) <= Precision
    THEN [zero |-> FALSE, m |-> bits \o Zeros(Precision - Len(bits)), e |-> e]
    ELSE LET kept == SubSeq(bits, 1, Precision)
             half == bits[Precision + 1] = 1
             rest == sticky \/ AnyOne(SubSeq(bits, Precision + 2, Len(bits)))
             up   == half /\ (rest \/ bits[Precision] = 1)
         IN  IF ~up THEN [zero |-> FALSE, m |-> kept, e |-> e]
             ELSE The({ IF inc[1] = 1
                        THEN [zero |-> FALSE, m |-> <<1>> \o inc[2], e |-> e + 1]
                        ELSE [zero |-> FALSE, m |-> inc[2], e |-> e]
                        : inc \in {IncBits(kept)} })

\* Long division by d of the number written by bits (followed by zeros),
\* over the positions lo..hi and with running remainder r:
\* <<quotient bits, final remainder>>.  The positions are halved so that the
\* recursion stays shallow; the bits are still produced one at a time.
RECURSIVE LongDiv(_, _, _, _, _)
LongDiv(bits, d, r, lo, hi) ==
    IF lo > hi THEN <<<<>>, r>>
    ELSE IF lo = hi
    THEN The({ <<<<t \div d>>, t % d>>
               : t \in {2 * r + (IF lo <= Len(bits) THEN bits[lo] ELSE 0)} })
    ELSE The({ The({ <<left[1] \o right[1], right[2]>>
                     : right \in {LongDiv(bits, d, left[2], (lo + hi) \div 2 + 1, hi)} })
               : left \in {LongDiv(bits, d, r, lo, (lo + hi) \div 2)} })

\* the float nearest to n / den, for n the number written by bits and e the
\* exponent of bits[1]: the quotient is divided out to more than Precision
\* bits, and those bits and the remainder decide the rounding
RoundQuotient(bits, den, e) ==
    The({ The({ RoundNearestEven(q, qr[2] # 0, e - (Len(qr[1]) - Len(q)))
                : q \in {StripZeros(qr[1])} })
          : qr \in {LongDiv(bits, den, 0, 1,
                            Len(bits) + Len(IntToBits(den)) + 1)} })

\* int / int true division: the float nearest to p / q  (p >= 0, q > 0)
IntDivInt(p, q) ==
    IF p = 0 THEN FloatZero
    ELSE The({ RoundQuotient(pb \o Zeros(Precision), q, Len(pb) - 1)
               : pb \in {IntToBits(p)} })

\* float / int: the float nearest to x / d  (x >= 0, d > 0)
FloatDivInt(x, d) ==
    The({ IF v.zero THEN FloatZero ELSE RoundQuotient(v.m, d, v.e)
          : v \in {x} })

\* bits[lo..hi] * n + c by schoolbook multiplication from the last bit:
\* <<final carry, product bits of the same length>>, positions halved as in
\* LongDiv
RECURSIVE MulBits(_, _, _, _, _)
MulBits(bits, n, c, lo, hi) ==
    IF lo > hi THEN <<c, <<>>>>
    ELSE IF lo = hi
    THEN The({ <<t \div 2, <<t % 2>>>> : t \in {bits[lo] * n + c} })
    ELSE The({ The({ <<left[1], left[2] \o right[2]>>
                     : left \in {MulBits(bits, n, right[1], lo, (lo + hi) \div 2)} })
               : right \in {MulBits(bits, n, c, (lo + hi) \div 2 + 1, hi)} })

\* int * float: the float nearest to n * x  (n >= 0, x >= 0)
IntMulFloat(n, x) ==
    The({ IF v.zero \/ n = 0 THEN FloatZero
          ELSE The({ The({ RoundNearestEven(high \o p[2], FALSE, v.e + Len(high))
                           : high \in {IntToBits(p[1])} })
                     : p \in {MulBits(v.m, n, 0, 1, Precision)} })
          : v \in {x} })

\* min(x, 1.0)
FloatMinOne(x) == The({ IF ~v.zero /\ v.e >= 0 THEN FloatOne ELSE v : v \in {x} })

\* int(x): truncation of a non-negative float
FloatToInt(x) ==
    The({ IF v.zero \/ v.e < 0 THEN 0 ELSE BitsToInt(v.m \o Zeros(v.e), v.e + 1)
          : v \in {x} })

----------------------------------------------------------------------------
(* JSON values and the configuration *)

\* Values of a decoded JSON document, and Python's None (= JSON null)
Num(n) == [num |-> n]
Str(t) == [str |-> t]
Null == [null |-> TRUE]
\* a key that the object does not hold
Missing == [missing |-> TRUE]
IsNum(v) == "num" \in DOMAIN v

\* dict.get(key, default) on a decoded field
Get(field, default) == IF field = Missing THEN default ELSE field

\* config.yaml after yaml.safe_load: led.count, led.brightness,
\* effects.progress_bar.{enabled,color}, effects.vinyl_rotation.{enabled,color};
\* absent lists the keys the file does not hold.  A configuration as the
\* README describes it, for strips of 1, 2, 3 and MaxLed LEDs:
ValidConfigs ==
    [count : {1, 2, 3, MaxLed}, brightness : {255},
     progress_bar_enabled : BOOLEAN, progress_bar_color : {<<10, 20, 30>>},
     vinyl_rotation_enabled : BOOLEAN, vinyl_rotation_color : {<<255, 128, 7>>},
     absent : {{}}]
    \cup
    [count : {1}, brightness : {102},
     progress_bar_enabled : BOOLEAN, progress_bar_color : {<<10, 20, 30>>},
     vinyl_rotation_enabled : BOOLEAN, vinyl_rotation_color : {<<255, 128, 7>>},
     absent : {{}}]

\* Nothing in __init__ validates the file beyond reading volumio.host,
\* volumio.port, wled.host, led.count and led.brightness, so it also accepts
\* files without update_interval or without an effects section, a led.count
\* of 0 and colours outside 0..255.
FaultyConfigs ==
    [count : {2}, brightness : {255},
     progress_bar_enabled : {TRUE}, progress_bar_color : {<<10, 20, 30>>},
     vinyl_rotation_enabled : {TRUE}, vinyl_rotation_color : {<<255, 128, 7>>},
     absent : {{"update_interval"}, {"effects.progress_bar"},
               {"effects.vinyl_rotation"}}]
    \cup
    [count : {0}, brightness : {255},
     progress_bar_enabled : BOOLEAN, progress_bar_color : {<<10, 20, 30>>},
     vinyl_rotation_enabled : {TRUE}, vinyl_rotation_color : {<<255, 128, 7>>},
     absent : {{}}]
    \cup
    [count : {3}, brightness : {255},
     progress_bar_enabled : {TRUE}, progress_bar_color : {<<300, -5, 30>>},
     vinyl_rotation_enabled : {TRUE}, vinyl_rotation_color : {<<300, -20, 7>>},
     absent : {{}}]

Configs == ValidConfigs \cup FaultyConfigs

\* What GET /api/v1/getState can make get_state return: None (request failed,
\* or the body is JSON null), a decoded body that is not an object, or an
\* object whose status, seek and duration are present, absent or null.
Statuses == {Str("play"), Str("pause"), Str("stop"), Str("buffering"), Missing}
Seeks == {Num(600 * k) : k \in 0..MaxSeek} \cup {Missing, Null}
Durations == {Num(d) : d \in 0..MaxDuration} \cup {Missing, Null}
NotObject == [array |-> TRUE]
Unset == [unset |-> TRUE]
Objects == { [obj |-> o] : o \in [status : Statuses, seek : Seeks, duration : Durations] }
Responses == {Null, NotObject} \cup Objects
IsObject(v) == "obj" \in DOMAIN v

----------------------------------------------------------------------------
(* WLEDClient: the requests posted to /json/state *)

\* WLEDClient.set_state: payload {"on": on} and "bri" when brightness is given
set_state(on, brightness) == [op |-> "set_state", on |-> on, bri |-> brightness]

\* WLEDClient.set_segment: payload {"seg": [{id, start, stop, col}]}
set_segment(start, stop, color) ==
    [op |-> "set_segment", id |-> 0, start |-> start, stop |-> stop, col |-> color]

\* mutation: the last LED is left out of the segment
clear_leds_OneShort(led_count) == set_segment(0, led_count - 1, <<0, 0, 0>>)
\* WLEDClient.clear_leds
clear_leds(led_count) == set_segment(0, led_count, <<0, 0, 0>>)

\* WLEDClient.set_individual_leds: payload {"seg": [{"i": led_data}]}
set_individual_leds(led_data) == [op |-> "set_individual_leds", i |-> led_data]

----------------------------------------------------------------------------
(* EffectManager *)

\* mutation: the loop stops one LED early
LedData_OneShort(led_count, colors) ==
    [k \in 1..(4 * (led_count - 1)) |->
        IF (k - 1) % 4 = 0 THEN (k - 1) \div 4
        ELSE colors[(k - 1) \div 4][(k - 1) % 4]]
\* led_data after `for i in range(led_count): led_data.extend([i, *colors[i]])`:
\* the flat list i, r, g, b for every i, here indexed from 1
LedData(led_count, colors) ==
    [k \in 1..(4 * led_count) |->
        IF (k - 1) % 4 = 0 THEN (k - 1) \div 4
        ELSE colors[(k - 1) \div 4][(k - 1) % 4]]

\* mutation: the ratio is not capped at 1.0
leds_to_light_NoMin(led_count, seek, duration) ==
    FloatToInt(IntMulFloat(led_count,
                 FloatDivInt(IntDivInt(seek, 1000), duration)))
\* leds_to_light = int(led_count * min(progress / duration, 1.0)) with
\* progress = seek / 1000, in float arithmetic
leds_to_light(led_count, seek, duration) ==
    FloatToInt(IntMulFloat(led_count,
                 FloatMinOne(FloatDivInt(IntDivInt(seek, 1000), duration))))

\* EffectManager.apply_progress_bar(seek / 1000, duration): the commands it
\* sends (none when duration <= 0)
apply_progress_bar(cfg, seek, duration) ==
    IF duration <= 0 THEN <<>>
    ELSE The({ <<set_individual_leds(
                   LedData(cfg.count,
                           [i \in 0..(cfg.count - 1) |->
                               IF i < lit THEN cfg.progress_bar_color
                               ELSE <<0, 0, 0>>]))>>
               : lit \in {leds_to_light(cfg.count, seek, duration)} })

\* int(x) for x = a / b with b > 0: truncation toward zero
TruncDiv(a, b) == IF a >= 0 THEN a \div b ELSE -((-a) \div b)

\* 10000 * sin(x / 10000) for 0 <= x <= 15708 (a quarter turn), by the
\* Taylor series up to x^9 in fixed point, kept within [0, 10000]
SinQuarter(x) ==
    LET x2 == (x * x) \div 10000
        t3 == (x * x2) \div 60000
        t5 == (t3 * x2) \div 200000
        t7 == (t5 * x2) \div 420000
        t9 == (t7 * x2) \div 720000
        s  == x - t3 + t5 - t7 + t9
    IN  IF s < 0 THEN 0 ELSE IF s > 10000 THEN 10000 ELSE s

\* 10000 * sin((pos / led_count) * 2 * pi * 4): the angle is 4 * pos / led_count
\* turns, reduced to the first quarter turn by the symmetries of the sine
SinTurns(pos, led_count) ==
    LET t == (4 * pos) % led_count
        Q(a) == SinQuarter((62832 * a) \div (4 * led_count))
    IN  IF 4 * t <= led_count THEN Q(4 * t)
        ELSE IF 2 * t <= led_count THEN Q(2 * led_count - 4 * t)
        ELSE IF 4 * t <= 3 * led_count THEN -Q(4 * t - 2 * led_count)
        ELSE -Q(4 * led_count - 4 * t)

\* the colour of LED i in the rotating pattern: int(color[c] * intensity) with
\* intensity = (sin(angle) + 1) / 2.  The sine is exact to about 1e-4 only, so
\* a channel can differ by one from the float result where color * intensity
\* falls that close to an integer.
VinylColor(cfg, offset, i) ==
    LET pos == (i - offset) % cfg.count
        s   == SinTurns(pos, cfg.count)
    IN  [c \in 1..3 |-> TruncDiv(cfg.vinyl_rotation_color[c] * (s + 10000), 20000)]

\* led_data built by apply_vinyl_rotation for the given rotation_offset
VinylLedData(cfg, offset) ==
    LedData(cfg.count, [i \in 0..(cfg.count - 1) |-> VinylColor(cfg, offset, i)])

----------------------------------------------------------------------------
(* VolumiWLED.run *)

VARIABLES
    config,           \* self.config, loaded by __init__ and never written again
    pc,               \* where run() is: the line it executes next
    state,            \* run's local `state`: the last value of get_state()
    status,           \* run's local `status`
    previous_status,  \* self.previous_status
    rotation_offset,  \* self.effects.rotation_offset
    led_data,         \* apply_vinyl_rotation's local led_data while it sleeps
    sent,             \* the requests posted to the sink since the last poll
                      \* (history)
    last_ok,          \* FALSE when the most recent request since the last poll
                      \* failed (history)
    offset_at_poll,   \* rotation_offset at the last poll (history)
    brightness_commanded,  \* the brightness of the last request that carried
                      \* one (history)
    rotations         \* the number of rotation frames built so far, counted
                      \* modulo led.count (history)

vars == <<config, pc, state, status, previous_status, rotation_offset,
          led_data, sent, last_ok, offset_at_poll, brightness_commanded,
          rotations>>

\* the lines of run() inside `try:`, where KeyboardInterrupt is caught
InTry == {"get_state", "status", "effects", "vinyl_sleep", "sleep"}

\* mutation: a failed request is posted a second time
Post_Retry(cmds) ==
    \E ok \in BOOLEAN :
        /\ last_ok' = IF cmds = <<>> THEN last_ok ELSE ok
        /\ sent' = IF ok THEN sent \o cmds ELSE sent \o cmds \o cmds
\* The requests cmds are posted to the sink.  requests.post succeeds or
\* raises a RequestException, which the client catches and logs; the callers
\* ignore the boolean result.
Post(cmds) ==
    /\ sent' = sent \o cmds
    /\ \E ok \in BOOLEAN : last_ok' = IF cmds = <<>> THEN last_ok ELSE ok

\* lines 48-52: set_state puts "bri" in the payload when a brightness is
\* given; the brightness the sink was last told is that of the last such
\* request
Commanded(cmds) ==
    LET carrying == {k \in 1..Len(cmds) :
                        cmds[k].op = "set_state" /\ IsNum(cmds[k].bri)}
    IN  IF carrying = {} THEN brightness_commanded
        ELSE cmds[CHOOSE k \in carrying : \A j \in carrying : j <= k].bri

\* a call of one of the WLEDClient methods with the requests it posts
Send(cmds) ==
    /\ Post(cmds)
    /\ brightness_commanded' = Commanded(cmds)

\* VolumiWLED.__init__ and the first lines of run()
Init ==
    /\ config \in Configs
    /\ pc = "power_on"
    /\ state = Unset
    /\ status = Unset
    /\ previous_status = Null
    /\ rotation_offset = 0
    /\ led_data = <<>>
    /\ sent = <<>>
    /\ last_ok = TRUE
    /\ offset_at_poll = 0
    /\ brightness_commanded = Unset
    /\ rotations = 0

\* line 218: self.wled.set_state(on=True, brightness=config['led']['brightness'])
PowerOn ==
    /\ pc = "power_on"
    /\ Send(<<set_state(TRUE, Num(config.brightness))>>)
    /\ pc' = "get_state"
    /\ UNCHANGED <<config, state, status, previous_status, rotation_offset,
                   led_data, offset_at_poll, rotations>>

\* mutation: None is not tested
AfterPoll_NoNoneCheck(response) == "status"
\* lines 225-228: `if state is None:` sleeps and continues, else line 230
AfterPoll(response) == IF response = Null THEN "sleep" ELSE "status"

\* lines 223-228: state = self.volumio.get_state(); None is logged and the
\* loop sleeps and continues
GetState ==
    /\ pc = "get_state"
    /\ \E response \in Responses :
          /\ state' = response
          /\ pc' = AfterPoll(response)
    /\ sent' = <<>>
    /\ offset_at_poll' = rotation_offset
    /\ last_ok' = TRUE
    /\ UNCHANGED <<config, status, previous_status, rotation_offset, led_data,
                   brightness_commanded, rotations>>

\* mutation: a state without status is read as playing
StatusDefault_Play == Str("play")
\* line 230: the default of state.get('status', 'stop')
StatusDefault == Str("stop")

\* lines 230-235: status = state.get('status', 'stop') and the status log;
\* a state without .get raises AttributeError, which leaves run()
ReadStatus ==
    /\ pc = "status"
    /\ IF IsObject(state)
       THEN /\ status' = Get(state.obj.status, StatusDefault)
            /\ previous_status' = status'
            /\ pc' = "effects"
       ELSE /\ pc' = "crashed"
            /\ UNCHANGED <<status, previous_status>>
    /\ UNCHANGED <<config, state, rotation_offset, led_data, sent, last_ok,
                   offset_at_poll, brightness_commanded, rotations>>

\* config['effects']['progress_bar'] and config['effects']['vinyl_rotation']
\* raise KeyError when the section is absent
ProgressKeyRaises == "effects.progress_bar" \in config.absent
VinylKeyRaises == "effects.vinyl_rotation" \in config.absent
\* line 164: (rotation_offset + 1) % led_count raises ZeroDivisionError
OffsetRaises == config.count = 0

\* state.get('seek', 0) / 1000 raises TypeError unless seek is a number
SeekRaises == ~IsNum(Get(state.obj.seek, Num(0)))
\* `enabled and duration > 0`: the comparison is evaluated only when the
\* progress bar is enabled, and raises TypeError unless duration is a number
DurationRaises ==
    /\ ~ProgressKeyRaises
    /\ config.progress_bar_enabled /\ ~IsNum(Get(state.obj.duration, Num(0)))
\* mutation: the rotation is preferred when both effects are enabled
ProgressSelected_RotationFirst ==
    /\ config.progress_bar_enabled /\ ~config.vinyl_rotation_enabled
    /\ Get(state.obj.duration, Num(0)).num > 0
\* mutation: the caller does not test the duration
ProgressSelected_NoDurationGuard == config.progress_bar_enabled
\* the condition of lines 244 and 253
ProgressSelected ==
    config.progress_bar_enabled /\ Get(state.obj.duration, Num(0)).num > 0

\* mutation: the progress bar restores the configured brightness first
ProgressCommands_Rebrighten ==
    <<set_state(TRUE, Num(config.brightness))>>
    \o apply_progress_bar(config, Get(state.obj.seek, Num(0)).num,
                          Get(state.obj.duration, Num(0)).num)
\* lines 245 and 254: self.effects.apply_progress_bar(seek, duration)
ProgressCommands ==
    apply_progress_bar(config, Get(state.obj.seek, Num(0)).num,
                       Get(state.obj.duration, Num(0)).num)

\* mutation: an `else:` that clears the strip
NoEffectCommands_Clear == <<clear_leds(config.count)>>
\* lines 244-247 have no `else:`: with neither effect selected nothing is sent
NoEffectCommands == <<>>

\* mutation: the brightness is not divided
PauseDimCommands_Full == <<set_state(TRUE, Num(config.brightness))>>
\* line 257: self.wled.set_state(on=True, brightness=brightness // 4)
PauseDimCommands == <<set_state(TRUE, Num(config.brightness \div 4))>>

\* mutation: the offset is not wrapped
AdvanceOffset_NoWrap(offset, led_count) == offset + 1
\* line 164: self.rotation_offset = (self.rotation_offset + 1) % self.led_count
AdvanceOffset(offset, led_count) == (offset + 1) % led_count

\* mutation: the frame is built from the offset the tick started with
FrameOffset_Before(before, after) == before
\* lines 168-170 read self.rotation_offset after line 164 has written it: of
\* the offset before and after the assignment, the frame is built from the
\* latter
FrameOffset(before, after) == after

\* lines 238-247, status == 'play': the progress bar, else the first half of
\* apply_vinyl_rotation(True) (lines 160-187: the offset is advanced and
\* led_data built, then it sleeps), else nothing
Play ==
    /\ pc = "effects" /\ status = Str("play")
    /\ IF SeekRaises \/ ProgressKeyRaises \/ DurationRaises
       THEN /\ pc' = "crashed"
            /\ UNCHANGED <<rotation_offset, led_data, sent, last_ok,
                           brightness_commanded, rotations>>
       ELSE IF ProgressSelected
       THEN /\ Send(ProgressCommands)
            /\ pc' = "sleep"
            /\ UNCHANGED <<rotation_offset, led_data, rotations>>
       ELSE IF VinylKeyRaises \/ (config.vinyl_rotation_enabled /\ OffsetRaises)
       THEN /\ pc' = "crashed"
            /\ UNCHANGED <<rotation_offset, led_data, sent, last_ok,
                           brightness_commanded, rotations>>
       ELSE IF config.vinyl_rotation_enabled
       THEN /\ rotation_offset' = AdvanceOffset(rotation_offset, config.count)
            /\ led_data' = VinylLedData(config,
                               FrameOffset(rotation_offset, rotation_offset'))
            /\ rotations' = (rotations + 1) % config.count
            /\ pc' = "vinyl_sleep"
            /\ UNCHANGED <<sent, last_ok, brightness_commanded>>
       ELSE /\ Send(NoEffectCommands)
            /\ pc' = "sleep"
            /\ UNCHANGED <<rotation_offset, led_data, rotations>>
    /\ UNCHANGED <<config, state, status, previous_status, offset_at_poll>>

\* line 189: return self.wled.set_individual_leds(led_data), after the sleep
\* of line 187
VinylDispatch ==
    /\ pc = "vinyl_sleep"
    /\ Send(<<set_individual_leds(led_data)>>)
    /\ led_data' = <<>>
    /\ pc' = "sleep"
    /\ UNCHANGED <<config, state, status, previous_status, rotation_offset,
                   offset_at_poll, rotations>>

\* lines 249-257, status == 'pause': the progress bar, else the strip is dimmed
Pause ==
    /\ pc = "effects" /\ status = Str("pause")
    /\ IF SeekRaises \/ ProgressKeyRaises \/ DurationRaises
       THEN /\ pc' = "crashed"
            /\ UNCHANGED <<sent, last_ok, brightness_commanded>>
       ELSE /\ IF ProgressSelected
               THEN Send(ProgressCommands)
               ELSE Send(PauseDimCommands)
            /\ pc' = "sleep"
    /\ UNCHANGED <<config, state, status, previous_status, rotation_offset,
                   led_data, offset_at_poll, rotations>>

\* lines 259-261, status == 'stop': self.wled.clear_leds(config['led']['count'])
Stop ==
    /\ pc = "effects" /\ status = Str("stop")
    /\ Send(<<clear_leds(config.count)>>)
    /\ pc' = "sleep"
    /\ UNCHANGED <<config, state, status, previous_status, rotation_offset,
                   led_data, offset_at_poll, rotations>>

\* no branch of lines 238-261 matches any other status
OtherStatus ==
    /\ pc = "effects" /\ status \notin {Str("play"), Str("pause"), Str("stop")}
    /\ pc' = "sleep"
    /\ UNCHANGED <<config, state, status, previous_status, rotation_offset,
                   led_data, sent, last_ok, offset_at_poll,
                   brightness_commanded, rotations>>

\* lines 227 and 264: time.sleep(config['update_interval']), then the next
\* iteration of `while True`; an absent update_interval raises KeyError
Sleep ==
    /\ pc = "sleep"
    /\ pc' = IF "update_interval" \in config.absent THEN "crashed" ELSE "get_state"
    /\ UNCHANGED <<config, state, status, previous_status, rotation_offset,
                   led_data, sent, last_ok, offset_at_poll,
                   brightness_commanded, rotations>>

\* line 218 is outside `try:`: a KeyboardInterrupt raised there leaves run(),
\* and main(), whose handlers catch Exception only, without the shutdown
InterruptStartup ==
    /\ pc = "power_on"
    /\ pc' = "killed"
    /\ UNCHANGED <<config, state, status, previous_status, rotation_offset,
                   led_data, sent, last_ok, offset_at_poll,
                   brightness_commanded, rotations>>

\* mutation: the handler does not clear the strip
AfterInterrupt_NoClear == "shutdown_off"
\* line 266: `except KeyboardInterrupt:` enters the handler at line 267
AfterInterrupt == "shutdown_clear"

\* lines 266-267: KeyboardInterrupt raised anywhere inside `try:`
Interrupt ==
    /\ pc \in InTry
    /\ pc' = AfterInterrupt
    /\ UNCHANGED <<config, state, status, previous_status, rotation_offset,
                   led_data, sent, last_ok, offset_at_poll,
                   brightness_commanded, rotations>>

\* line 268: self.wled.clear_leds(config['led']['count'])
ShutdownClear ==
    /\ pc = "shutdown_clear"
    /\ Send(<<clear_leds(config.count)>>)
    /\ pc' = "shutdown_off"
    /\ UNCHANGED <<config, state, status, previous_status, rotation_offset,
                   led_data, offset_at_poll, rotations>>

\* line 269: self.wled.set_state(on=False); run() returns
ShutdownOff ==
    /\ pc = "shutdown_off"
    /\ Send(<<set_state(FALSE, Missing)>>)
    /\ pc' = "exited"
    /\ UNCHANGED <<config, state, status, previous_status, rotation_offset,
                   led_data, offset_at_poll, rotations>>

Next ==
    \/ PowerOn
    \/ GetState
    \/ ReadStatus
    \/ Play
    \/ VinylDispatch
    \/ Pause
    \/ Stop
    \/ OtherStatus
    \/ Sleep
    \/ InterruptStartup
    \/ Interrupt
    \/ ShutdownClear
    \/ ShutdownOff

Spec == Init /\ [][Next]_vars

----------------------------------------------------------------------------
(* Properties.  A tick is one iteration of `while True`; it is complete when *)
(* the loop reaches its sleep.  The polled fields are read as run() reads    *)
(* them, with the defaults of state.get.                                    *)

PolledStatus == Get(state.obj.status, Str("stop"))
PolledSeek == Get(state.obj.seek, Num(0))
PolledDuration == Get(state.obj.duration, Num(0))

\* the poll of this tick returned a player state: an object whose seek is a
\* number (or absent, read as 0)
PolledPlayerState == IsObject(state) /\ IsNum(PolledSeek)

DurationPositive == IsNum(PolledDuration) /\ PolledDuration.num > 0

\* the requests expected on the wire, written out field by field
ClearRequest ==
    [op |-> "set_segment", id |-> 0, start |-> 0, stop |-> config.count,
     col |-> <<0, 0, 0>>]
DimRequest ==
    [op |-> "set_state", on |-> TRUE, bri |-> [num |-> config.brightness \div 4]]
IsFrame(cmd) == cmd.op = "set_individual_leds"
IsPower(cmd) == cmd.op = "set_state"

\* C1: on a completed tick that polled status play with the progress bar
\* enabled and duration > 0, exactly the progress frame was sent; the vinyl
\* rotation was not entered and rotation_offset is what it was at the poll,
\* whether or not the rotation is enabled.
C1_PlayingProgressOnly ==
    (PolledPlayerState /\ PolledStatus = Str("play")
        /\ config.progress_bar_enabled /\ DurationPositive)
    => /\ pc # "vinyl_sleep"
       /\ led_data = <<>>
       /\ rotation_offset = offset_at_poll
       /\ pc = "sleep" =>
             /\ sent = apply_progress_bar(config, PolledSeek.num, PolledDuration.num)
             /\ Len(sent) = 1 /\ IsFrame(sent[1])

\* C1 witness: such a tick, with the rotation enabled as well and already
\* advanced by earlier ticks
C1_Witness ==
    /\ pc = "sleep" /\ PolledPlayerState /\ PolledStatus = Str("play")
    /\ config.progress_bar_enabled /\ config.vinyl_rotation_enabled
    /\ DurationPositive /\ PolledSeek.num > 0
    /\ offset_at_poll > 0
    /\ Len(sent) = 1

\* C2: on a completed tick that polled status play or pause with duration 0
\* or absent, no progress frame was sent: a playing tick sent the rotation
\* frame and advanced rotation_offset when the rotation is enabled, and
\* nothing otherwise; a paused tick sent the dim request.
C2_NoProgressWithoutDuration ==
    (pc = "sleep" /\ PolledPlayerState /\ PolledDuration = Num(0))
    => /\ PolledStatus = Str("play") =>
             IF config.vinyl_rotation_enabled
             THEN /\ sent = <<set_individual_leds(VinylLedData(config, rotation_offset))>>
                  /\ rotation_offset = (offset_at_poll + 1) % config.count
             ELSE sent = <<>> /\ rotation_offset = offset_at_poll
       /\ PolledStatus = Str("pause") => sent = <<DimRequest>>

\* C2 witness: a playing tick with the progress bar enabled and duration 0
\* that fell through to the rotation
C2_Witness ==
    /\ pc = "sleep" /\ PolledPlayerState /\ PolledStatus = Str("play")
    /\ state.obj.duration = Num(0) /\ PolledSeek.num > 0
    /\ config.progress_bar_enabled /\ config.vinyl_rotation_enabled
    /\ Len(sent) = 1 /\ IsFrame(sent[1])

\* C3: on a completed tick that polled status stop, exactly one request was
\* sent, the clear of LEDs 0..count: no power request, no frame, and
\* rotation_offset is what it was at the poll.
C3_StoppedClears ==
    (pc = "sleep" /\ IsObject(state) /\ state.obj.status = Str("stop"))
    => /\ sent = <<ClearRequest>>
       /\ rotation_offset = offset_at_poll
       /\ led_data = <<>>

\* C3 witness: a stopped tick with both effects enabled, a positive
\* duration and a rotation already advanced
C3_Witness ==
    /\ pc = "sleep" /\ IsObject(state) /\ state.obj.status = Str("stop")
    /\ config.progress_bar_enabled /\ config.vinyl_rotation_enabled
    /\ DurationPositive
    /\ offset_at_poll > 0
    /\ sent # <<>>

\* C4 as claimed: on a completed tick that polled status play with the
\* progress bar not selectable (disabled, or duration 0) and the rotation
\* disabled, the LEDs were cleared through the sink.
C4_NoEffectClears ==
    (pc = "sleep" /\ PolledPlayerState /\ PolledStatus = Str("play")
        /\ (~config.progress_bar_enabled \/ PolledDuration = Num(0))
        /\ ~config.vinyl_rotation_enabled)
    => sent = <<ClearRequest>>

\* C4 amended: on such a tick no request at all was sent to the sink, and
\* rotation_offset is what it was at the poll.
C4_NoEffectSendsNothing ==
    (pc = "sleep" /\ PolledPlayerState /\ PolledStatus = Str("play")
        /\ (~config.progress_bar_enabled \/ PolledDuration = Num(0))
        /\ ~config.vinyl_rotation_enabled)
    => /\ sent = <<>>
       /\ rotation_offset = offset_at_poll
       /\ led_data = <<>>

\* C4 witness: a playing tick with the progress bar enabled, duration 0 and
\* the rotation disabled
C4_Witness ==
    /\ pc = "sleep" /\ PolledPlayerState /\ PolledStatus = Str("play")
    /\ config.progress_bar_enabled /\ state.obj.duration = Num(0)
    /\ ~config.vinyl_rotation_enabled
    /\ PolledSeek.num > 0

\* C5: on a completed tick that polled status pause, the progress frame of
\* the polled seek and duration was sent when the progress bar is enabled
\* and duration > 0, and otherwise exactly one power request with on = true
\* and brightness = floor(brightness / 4); the vinyl rotation was not entered
\* in either case.
C5_Paused ==
    (PolledPlayerState /\ PolledStatus = Str("pause"))
    => /\ pc # "vinyl_sleep"
       /\ led_data = <<>>
       /\ rotation_offset = offset_at_poll
       /\ pc = "sleep" =>
             IF config.progress_bar_enabled /\ DurationPositive
             THEN /\ sent = apply_progress_bar(config, PolledSeek.num, PolledDuration.num)
                  /\ Len(sent) = 1 /\ IsFrame(sent[1])
             ELSE sent = <<DimRequest>>

\* C5 witness: a paused tick that dimmed the strip although the rotation is
\* enabled and has advanced before
C5_Witness ==
    /\ pc = "sleep" /\ PolledPlayerState /\ PolledStatus = Str("pause")
    /\ ~config.progress_bar_enabled /\ config.vinyl_rotation_enabled
    /\ DurationPositive
    /\ offset_at_poll > 0
    /\ Len(sent) = 1 /\ IsPower(sent[1])

\* C6: a poll that returns None sends nothing and leaves rotation_offset and
\* previous_status as they were; the loop goes to its sleep and from there
\* to the next poll (or to the shutdown, when interrupted).  The wait is the
\* configured update_interval, so the second part is read for the
\* configurations that hold one.
C6_FailedPoll ==
    [][ /\ (pc = "get_state" /\ pc' # "shutdown_clear" /\ state' = Null)
           => /\ pc' = "sleep"
              /\ sent' = <<>>
              /\ UNCHANGED <<rotation_offset, previous_status, led_data>>
        /\ (pc = "sleep" /\ state = Null /\ "update_interval" \notin config.absent)
           => /\ pc' \in {"get_state", "shutdown_clear"}
              /\ UNCHANGED <<sent, rotation_offset, previous_status, led_data>>
      ]_vars

\* C6 witness: a failed poll after ticks that had set previous_status and
\* advanced the rotation
C6_Witness ==
    /\ pc = "sleep" /\ state = Null
    /\ sent = <<>>
    /\ previous_status = Str("play")
    /\ rotation_offset > 0

\* C7 as claimed: nothing the player source returns takes run() out of its
\* loop; only the interrupt does.
C7_LoopNeverCrashes == pc # "crashed"

\* what a completed tick sends, as a function of the configuration, the
\* polled state and rotation_offset alone
TickCommands ==
    IF ~IsObject(state) THEN <<>>
    ELSE IF PolledStatus \in {Str("play"), Str("pause")}
              /\ config.progress_bar_enabled /\ DurationPositive
    THEN apply_progress_bar(config, PolledSeek.num, PolledDuration.num)
    ELSE IF PolledStatus = Str("play")
    THEN IF config.vinyl_rotation_enabled
         THEN <<[op |-> "set_individual_leds",
                 i |-> VinylLedData(config, rotation_offset)]>>
         ELSE <<>>
    ELSE IF PolledStatus = Str("pause") THEN <<DimRequest>>
    ELSE IF PolledStatus = Str("stop") THEN <<ClearRequest>>
    ELSE <<>>

\* C8: a tick sends at most one request; a request that fails ends the tick
\* like one that succeeds (no second request, no exit from the loop); after
\* it the loop sleeps and polls again with nothing of the failed request
\* kept, and every tick sends what its own polled state selects.  The sleep
\* is the configured update_interval, so the step after it is read for the
\* configurations that hold one.
C8_FailedDispatch ==
    /\ [](pc \in InTry => Len(sent) <= 1)
    /\ [](pc = "sleep" => sent = TickCommands)
    /\ [][ /\ (pc \in InTry /\ sent' # sent /\ sent' # <<>> /\ ~last_ok')
              => pc' = "sleep" /\ Len(sent') = 1
           /\ (pc = "sleep" /\ ~last_ok /\ "update_interval" \notin config.absent)
              => /\ pc' \in {"get_state", "shutdown_clear"}
                 /\ UNCHANGED <<state, status, previous_status,
                                rotation_offset, led_data, sent>>
         ]_vars

\* C8 witness: a completed tick whose request failed
C8_Witness ==
    /\ pc = "sleep" /\ ~last_ok
    /\ Len(sent) = 1 /\ IsFrame(sent[1])

\* a flat led_data list with one entry i, r, g, b for every LED 0..count-1,
\* in order
FullFrame(data) ==
    /\ Len(data) = 4 * config.count
    /\ \A i \in 0..(config.count - 1) :
          /\ data[4 * i + 1] = i
          /\ \A c \in 2..4 : data[4 * i + c] \in Int

\* C9: every frame sent to the sink, and the frame the rotation holds while
\* it sleeps, has exactly count entries with the LED indices 0..count-1 in
\* order.
C9_FullFrames ==
    /\ \A k \in 1..Len(sent) : IsFrame(sent[k]) => FullFrame(sent[k].i)
    /\ pc = "vinyl_sleep" => FullFrame(led_data)

\* C9 witness: a rotation frame for more than one LED was sent
C9_Witness ==
    /\ pc = "sleep" /\ PolledPlayerState /\ PolledStatus = Str("play")
    /\ rotation_offset # offset_at_poll
    /\ config.count > 1
    /\ Len(sent) = 1 /\ IsFrame(sent[1])

\* floor(count * min(elapsed / duration, 1)) for elapsed = seek / 1000, in
\* exact arithmetic
ExactLit ==
    IF PolledSeek.num >= 1000 * PolledDuration.num THEN config.count
    ELSE (config.count * PolledSeek.num) \div (1000 * PolledDuration.num)

\* C10 as claimed: the progress frame lights exactly
\* floor(count * min(elapsed / duration, 1)) LEDs: the LEDs below that number
\* carry the progress colour, the others (0, 0, 0).
C10_ExactLit ==
    (pc = "sleep" /\ PolledPlayerState
        /\ PolledStatus \in {Str("play"), Str("pause")}
        /\ config.progress_bar_enabled /\ DurationPositive)
    => /\ Len(sent) = 1 /\ IsFrame(sent[1])
       /\ Len(sent[1].i) = 4 * config.count
       /\ \A i \in 0..(config.count - 1) :
             <<sent[1].i[4 * i + 2], sent[1].i[4 * i + 3], sent[1].i[4 * i + 4]>>
                = IF i < ExactLit THEN config.progress_bar_color ELSE <<0, 0, 0>>

\* the number of LEDs of a flat led_data list that are not (0, 0, 0)
LitCount(data) ==
    Cardinality({i \in 0..(config.count - 1) :
                    <<data[4 * i + 2], data[4 * i + 3], data[4 * i + 4]>>
                        # <<0, 0, 0>>})

\* the seek values a poll can carry
PolledSeeks == {v.num : v \in {w \in Seeks : IsNum(w)}}

\* C11: for the polled duration > 0 and the configured count, the number of
\* LEDs the progress frame lights is leds_to_light of the polled seek; it is
\* no smaller than for any smaller seek, 0 for seek 0 and count for every
\* seek of at least the duration.
C11_LitMonotone ==
    (pc = "sleep" /\ PolledPlayerState
        /\ PolledStatus \in {Str("play"), Str("pause")}
        /\ config.progress_bar_enabled /\ DurationPositive)
    => LET lit == The({leds_to_light(config.count, PolledSeek.num,
                                     PolledDuration.num)})
       IN  /\ Len(sent) = 1 /\ IsFrame(sent[1])
           /\ LitCount(sent[1].i) = lit
           /\ lit \in 0..config.count
           /\ PolledSeek.num = 0 => lit = 0
           /\ PolledSeek.num >= 1000 * PolledDuration.num => lit = config.count
           /\ \A e \in PolledSeeks :
                 e <= PolledSeek.num
                 => leds_to_light(config.count, e, PolledDuration.num) <= lit

\* C11 witness: a progress frame that lights some LEDs but not all, for a
\* seek with a smaller seek below it
C11_Witness ==
    /\ pc = "sleep" /\ PolledPlayerState /\ PolledStatus = Str("play")
    /\ config.progress_bar_enabled /\ DurationPositive
    /\ PolledSeek.num > 600
    /\ Len(sent) = 1 /\ IsFrame(sent[1])
    /\ LitCount(sent[1].i) \in 1..(config.count - 1)

\* the tick that polled this player state is a rotation tick: playing, the
\* progress bar not selected, the rotation enabled
RotationTick ==
    /\ PolledPlayerState /\ PolledStatus = Str("play")
    /\ ~(config.progress_bar_enabled /\ DurationPositive)
    /\ config.vinyl_rotation_enabled

\* C12: for a strip of at least one LED, rotation_offset is 0 before the
\* first tick and within 0..count-1 ever after; no step does anything to it
\* but add 1 modulo count; a completed tick has added 1 modulo count exactly
\* when it is a rotation tick and has left it alone otherwise (progress,
\* pause, stop, other status, failed poll); it equals the number of rotation
\* ticks so far modulo count, so count rotation ticks bring it back to where
\* it was.
C12_RotationOffset ==
    /\ [](config.count >= 1 =>
            /\ rotation_offset \in 0..(config.count - 1)
            /\ pc = "power_on" => rotation_offset = 0
            /\ rotation_offset
                  \in {offset_at_poll, (offset_at_poll + 1) % config.count}
            /\ pc = "sleep" =>
                  rotation_offset = IF RotationTick
                                    THEN (offset_at_poll + 1) % config.count
                                    ELSE offset_at_poll
            /\ rotation_offset = rotations)
    /\ [][config.count >= 1 =>
            /\ rotation_offset'
                  \in {rotation_offset, (rotation_offset + 1) % config.count}
            /\ rotations' # rotations
                  => rotation_offset' = (rotation_offset + 1) % config.count
         ]_vars

\* C12 witness: a completed rotation tick took the offset from count-1 back
\* to 0 on a strip of several LEDs
C12_Witness ==
    /\ pc = "sleep" /\ RotationTick
    /\ config.count > 1
    /\ offset_at_poll = config.count - 1
    /\ rotation_offset = 0

\* the power-off request as it goes on the wire: no brightness
OffRequest == [op |-> "set_state", on |-> FALSE, bri |-> [missing |-> TRUE]]

\* the handler of KeyboardInterrupt is running or has returned
ShuttingDown == pc \in {"shutdown_clear", "shutdown_off", "exited"}

\* C13: once the handler of the interrupt is entered it sends the clear of
\* LEDs 0..count and then the power-off, one request each, and run()
\* returns; it polls no more, never goes back into the loop, and nothing
\* happens after the return, so the power-off is the last request sent.
C13_Shutdown ==
    /\ [](pc = "shutdown_off" =>
            Len(sent) >= 1 /\ sent[Len(sent)] = ClearRequest)
    /\ [](pc = "exited" =>
            /\ Len(sent) >= 2
            /\ sent[Len(sent) - 1] = ClearRequest
            /\ sent[Len(sent)] = OffRequest)
    /\ [][ /\ ShuttingDown => (ShuttingDown' /\ state' = state)
           /\ pc = "shutdown_clear" =>
                 pc' = "shutdown_off" /\ Len(sent') = Len(sent) + 1
           /\ pc = "shutdown_off" =>
                 pc' = "exited" /\ Len(sent') = Len(sent) + 1
           /\ pc # "exited"
         ]_vars

\* C13 witness: run() has returned after an interrupt that came when the tick
\* had just sent its frame
C13_Witness ==
    /\ pc = "exited"
    /\ Len(sent) = 3 /\ IsFrame(sent[1])
    /\ sent[2] = ClearRequest /\ sent[3] = OffRequest

\* C14 as claimed: the handler of the interrupt is entered only from a tick
\* boundary (the sleep that ends a tick, or the point before the next poll),
\* never from the middle of a tick; in particular never while a rotation
\* frame built from the advanced offset is still waiting to be sent.
C14_CooperativeCancellation ==
    [][ (pc' = "shutdown_clear" /\ pc # "shutdown_clear")
            => /\ pc \in {"sleep", "get_state"}
               /\ led_data = <<>>
               /\ rotation_offset # offset_at_poll
                     => (Len(sent) = 1 /\ IsFrame(sent[1]))
      ]_vars

\* C15 as claimed: every colour channel of every frame sent is an integer in
\* 0..255, whatever colours the configuration holds.
C15_ChannelsInRange ==
    \A k \in 1..Len(sent) :
        IsFrame(sent[k])
        => \A j \in 1..Len(sent[k].i) :
              (j - 1) % 4 # 0 => sent[k].i[j] \in 0..255

\* the configuration has an error: a key is absent, the strip has no LED, or
\* a brightness or colour channel is outside 0..255
ConfigurationError ==
    \/ config.absent # {}
    \/ config.count < 1
    \/ config.brightness \notin 0..255
    \/ \E c \in 1..3 : \/ config.progress_bar_color[c] \notin 0..255
                       \/ config.vinyl_rotation_color[c] \notin 0..255

\* C16 as claimed: with a configuration error the loop never starts: nothing
\* is ever sent to the sink, not even the power-on, and the player is never
\* polled.
C16_FatalAtStartup ==
    ConfigurationError
    => /\ sent = <<>> /\ brightness_commanded = Unset
       /\ state = Unset
       /\ pc \notin InTry

\* the request that carries the rotation frame built from an offset
RotationRequest(offset) ==
    [op |-> "set_individual_leds", i |-> VinylLedData(config, offset)]

\* C17 as claimed: in a rotation tick the frame is built from the offset the
\* tick started with, and the offset is advanced only after the frame was
\* sent.
C17_DispatchThenAdvance ==
    config.count >= 1 =>
        /\ pc = "vinyl_sleep" => rotation_offset = offset_at_poll
        /\ (pc = "sleep" /\ RotationTick)
              => sent = <<RotationRequest(offset_at_poll)>>

\* C17: in a rotation tick the offset is advanced first, while nothing has
\* been sent yet, and the frame is built from the advanced offset and then
\* sent; the offset the frame is built from is the number of rotation frames
\* so far modulo count, this one included, so the first frame is built from
\* 1 mod count and the k-th from k mod count.
C17_AdvanceThenDispatch ==
    config.count >= 1 =>
        /\ pc = "vinyl_sleep"
              => /\ sent = <<>>
                 /\ rotation_offset = (offset_at_poll + 1) % config.count
                 /\ rotation_offset = rotations
                 /\ led_data = VinylLedData(config, rotation_offset)
        /\ (pc = "sleep" /\ RotationTick)
              => /\ sent = <<RotationRequest((offset_at_poll + 1) % config.count)>>
                 /\ rotation_offset = (offset_at_poll + 1) % config.count
                 /\ rotation_offset = rotations

\* C17 witness: the first rotation tick of a three-LED strip has sent a frame
\* that is not the frame of offset 0
C17_Witness ==
    /\ pc = "sleep" /\ RotationTick
    /\ config.count = 3 /\ offset_at_poll = 0 /\ rotations = 1
    /\ Len(sent) = 1 /\ IsFrame(sent[1])
    /\ sent[1] # RotationRequest(0)

\* the power-on request of line 218 as it goes on the wire
PowerOnRequest ==
    [op |-> "set_state", on |-> TRUE, bri |-> [num |-> config.brightness]]

\* the loop has polled at least once
Polled == state # Unset

\* the tick that polled this state dims: paused, the progress bar not selected
DimTick ==
    /\ IsObject(state) /\ PolledStatus = Str("pause")
    /\ ~(config.progress_bar_enabled /\ DurationPositive)

\* C18: the power-on with the configured brightness is the one request sent
\* before the first poll, and it is sent there only.  After it a tick of the
\* loop sends a power request only when it dims (paused, progress bar not
\* selected), and that request is on=true with brightness // 4; a playing or
\* stopped tick sends no power request.  The power-off is sent by the
\* shutdown only, as its last request.  The brightness last commanded is the
\* configured one until a tick dims and brightness // 4 from then on: every
\* later frame is sent under the dimmed brightness.
C18_PowerCommands ==
    /\ []( /\ pc = "power_on"
              => sent = <<>> /\ ~Polled /\ brightness_commanded = Unset
           /\ (pc = "get_state" /\ ~Polled) => sent = <<PowerOnRequest>>
           /\ pc \notin {"power_on", "killed"}
              => brightness_commanded
                    \in {Num(config.brightness), Num(config.brightness \div 4)}
           /\ \A k \in 1..Len(sent) :
                 /\ (IsPower(sent[k]) /\ Polled /\ ~ShuttingDown)
                       => (sent[k] = DimRequest /\ DimTick)
                 /\ (IsPower(sent[k]) /\ Polled /\ sent[k] # OffRequest)
                       => sent[k] = DimRequest
                 /\ sent[k] = OffRequest => (pc = "exited" /\ k = Len(sent)) )
    /\ [][ /\ (Polled /\ brightness_commanded = Num(config.brightness \div 4))
                 => brightness_commanded' = brightness_commanded
           /\ brightness_commanded' # brightness_commanded
                 => \/ pc = "power_on"
                    \/ pc = "effects" /\ DimTick /\ pc' = "sleep"
           /\ pc # "power_on" => pc' # "power_on"
         ]_vars

\* C18 witness: a frame was sent on a tick after the strip had been dimmed
C18_Witness ==
    /\ pc = "sleep"
    /\ brightness_commanded = Num(config.brightness \div 4)
    /\ config.brightness \div 4 # config.brightness
    /\ Len(sent) = 1 /\ IsFrame(sent[1])

Recognized == {Str("play"), Str("pause"), Str("stop")}

\* C19: a tick whose poll returned a state with a status other than play,
\* pause and stop records that status as previous_status, sends nothing,
\* leaves rotation_offset alone and goes to the sleep that ends the tick; a
\* tick whose poll returned a state without status records stop and sends
\* the clear of LEDs 0..count, as a stopped tick does.
C19_OtherStatus ==
    /\ []((pc = "sleep" /\ IsObject(state)) =>
            /\ (state.obj.status # Missing /\ state.obj.status \notin Recognized)
                  => /\ sent = <<>>
                     /\ rotation_offset = offset_at_poll
                     /\ previous_status = state.obj.status
            /\ state.obj.status \in {Missing, Str("stop")}
                  => /\ sent = <<ClearRequest>>
                     /\ rotation_offset = offset_at_poll
                     /\ previous_status = Str("stop"))
    /\ [][(pc = "effects" /\ status \notin Recognized /\ ~ShuttingDown')
            => /\ pc' = "sleep"
               /\ UNCHANGED <<sent, rotation_offset, previous_status>>
         ]_vars

\* C19 witness: a tick that polled status buffering has completed, after
\* earlier ticks had advanced the rotation
C19_Witness ==
    /\ pc = "sleep" /\ IsObject(state)
    /\ state.obj.status = Str("buffering")
    /\ previous_status = Str("buffering")
    /\ offset_at_poll > 0
    /\ sent = <<>>

====
